---- MODULE Spec2Model ----
(***************************************************************************)
(* GNSS telemetry relay: UDP ingress handlers (server/udp_handlers.js),    *)
(* the TTL-bounded state store (server/state.js), the WebSocket fan-out    *)
(* (server/websocket.js) and the snapshot routes (server/server.js).       *)
(* Node runs every handler to completion, so each handler is one action.   *)
(***************************************************************************)
EXTENDS Integers, Sequences, FiniteSets, TLC

\* ---------------------------------------------------------------- bounds
StartClock == 100000      \* Date.now() when the process starts (any value > TTL_MS)
MaxTicks   == 2           \* clock changes explored
MaxDgrams  == 2           \* datagrams that decode explored
MaxBad     == 1           \* datagrams that do not decode explored
MaxBatch   == 2           \* entries per observables datagram
NumClients == 2           \* WebSocket consumers
SendTimeout == 5000       \* the per-subscriber send timeout of the design (ms)

\* ------------------------------------------------------- program constants
TTL_MS == 5000

\* ---------------------------------------------------------------- inputs
ChannelIds == {3, 7}
Clients    == 1..NumClients
TickSteps  == {1, TTL_MS}

\* decoded gnss_sdr.Observables entries (GnssSynchro): tracked channels, and a channel with
\* sampling rate 0 that carries the values of a tracked one
RawObs ==
  {[channelId |-> 3, cn0DbHz |-> 42, fs |-> 4000000],
   [channelId |-> 3, cn0DbHz |-> 30, fs |-> 4000000],
   [channelId |-> 7, cn0DbHz |-> 42, fs |-> 4000000],
   [channelId |-> 3, cn0DbHz |-> 30, fs |-> 0]}

RECURSIVE SeqsUpTo(_, _)
SeqsUpTo(S, n) ==
  IF n = 0 THEN {<<>>}
  ELSE LET shorter == SeqsUpTo(S, n - 1)
       IN  shorter \cup {Append(q, x) : q \in {r \in shorter : Len(r) = n - 1}, x \in S}

\* a datagram on the observables port: bytes that decode to a batch, or bytes that do not
ObsDatagrams ==
  {[ok |-> TRUE, observable |-> b] : b \in SeqsUpTo(RawObs, MaxBatch)}
    \cup {[ok |-> FALSE, observable |-> <<>>]}

\* one decoded gnss_sdr.MonitorPvt
RawPvt == {[towAtCurrentSymbolMs |-> 2000, validSats |-> 3, solutionStatus |-> 0],
           [towAtCurrentSymbolMs |-> 1000, validSats |-> 6, solutionStatus |-> 4]}

PvtDatagrams ==
  {[ok |-> TRUE, pvt |-> p] : p \in RawPvt}
    \cup {[ok |-> FALSE, pvt |-> [towAtCurrentSymbolMs |-> 0, validSats |-> 0, solutionStatus |-> 0]]}

\* JavaScript null
Null == [type |-> "null"]

VARIABLES
  clock,               \* Date.now()
  pvt,                 \* latest.pvt
  pvt_timestamp,       \* latest.pvt_timestamp
  obs_by_channel,      \* latest.obs_by_channel: a Map, kept in insertion order
  obs_last_update_ms,  \* latest.obs_last_update_ms
  wss,                 \* websocket.js: the WebSocket.Server, once initialised
  clients,             \* wss.clients
  readyState,          \* ws.readyState of every client
  inbox,               \* per client: the frames passed to ws.send, by arrival number of the datagram
  pendingSince,        \* per client: time of the oldest send the consumer has not taken yet
  loaded,              \* udp_handlers.js: ObservablesMsg and MonitorPvtMsg are set
  udp,                 \* the sockets udpObs and udpPvt: unbound, listening, or bind failed
  running,             \* the process is alive
  decodeErrors,        \* decode errors logged by console.error
  nTicks,              \* clock changes so far
  nDgrams,             \* datagrams decoded so far
  ev                   \* the last handler run and what it returned or sent

vars == <<clock, pvt, pvt_timestamp, obs_by_channel, obs_last_update_ms, wss, clients,
          readyState, inbox, pendingSince, loaded, udp, running, decodeErrors, nTicks, nDgrams,
          ev>>

store  == <<pvt, pvt_timestamp, obs_by_channel, obs_last_update_ms>>
fanout == <<wss, clients, readyState, inbox, pendingSince>>

NoSend == 0 - 1

\* datagrams received so far on the two sockets
Arrived == nDgrams + decodeErrors

\* ------------------------------------------------------------ state.js
\* a set() that always adds an entry
MapSet_append(m, k, v) == Append(m, [id |-> k, s |-> v])

\* a set() that merges: the strength of an existing key is added to the new one
MapSet_sum(m, k, v) ==
  IF \E i \in 1..Len(m) : m[i].id = k
  THEN [i \in 1..Len(m) |->
          IF m[i].id = k
          THEN [id |-> k, s |-> [v EXCEPT !.cn0_db_hz = @ + m[i].s.cn0_db_hz]]
          ELSE m[i]]
  ELSE Append(m, [id |-> k, s |-> v])

\* Map.prototype.set: replace the value of an existing key in place, else append
MapSet(m, k, v) ==
  IF \E i \in 1..Len(m) : m[i].id = k
  THEN [i \in 1..Len(m) |-> IF m[i].id = k THEN [id |-> k, s |-> v] ELSE m[i]]
  ELSE Append(m, [id |-> k, s |-> v])

Keys(m) == {m[i].id : i \in 1..Len(m)}
MapHas(m, k) == k \in Keys(m)
MapGet(m, k) == m[CHOOSE i \in 1..Len(m) : m[i].id = k].s

\* the stored object { ...s, _received_at: now }
Stored(s, now) ==
  [type |-> s.type, timestamp |-> s.timestamp, channel_id |-> s.channel_id,
   cn0_db_hz |-> s.cn0_db_hz, _received_at |-> now]

\* a loop that reads the clock for every sample: each next sample a millisecond later
RECURSIVE SetAll_clockPerSample(_, _, _)
SetAll_clockPerSample(m, samples, now) ==
  IF samples = <<>> THEN m
  ELSE SetAll_clockPerSample(MapSet(m, Head(samples).channel_id, Stored(Head(samples), now)),
                             Tail(samples), now + 1)

RECURSIVE SetAll(_, _, _)
SetAll(m, samples, now) ==
  IF samples = <<>> THEN m
  ELSE SetAll(MapSet(m, Head(samples).channel_id, Stored(Head(samples), now)),
              Tail(samples), now)

\* a slot that keeps the fix with the later epoch
setLatestPvt_keepLaterEpoch(msg) ==
  /\ pvt' = (IF pvt # Null /\ pvt.tow_ms > msg.tow_ms THEN pvt ELSE msg)
  /\ pvt_timestamp' = clock

\* a write of the fix without its timestamp
setLatestPvt_valueOnly(msg) ==
  /\ pvt' = msg
  /\ pvt_timestamp' = pvt_timestamp

setLatestPvt(msg) ==
  /\ pvt' = msg
  /\ pvt_timestamp' = clock

\* a handler that publishes a batch it has not recorded
updateLatestObservables_skip(samples) ==
  UNCHANGED <<obs_by_channel, obs_last_update_ms>>

updateLatestObservables(samples) ==
  /\ obs_by_channel' = SetAll(obs_by_channel, samples, clock)
  /\ obs_last_update_ms' = clock

\* an expiry test that never expires a fix
PvtExpired_never(now, ts) == FALSE

PvtExpired(now, ts) == now - ts > TTL_MS

getLatestPvt ==
  IF pvt = Null \/ PvtExpired(clock, pvt_timestamp) THEN Null ELSE pvt

\* a freshness test that admits an entry aged exactly TTL
IsFresh_inclusive(now, s) == now - s._received_at <= TTL_MS

IsFresh(now, s) == now - s._received_at < TTL_MS

\* a comparator with the operands exchanged: weakest first
RECURSIVE InsertByCn0_ascending(_, _)
InsertByCn0_ascending(sorted, x) ==
  IF sorted = <<>> THEN <<x>>
  ELSE IF Head(sorted).cn0_db_hz <= x.cn0_db_hz
       THEN <<Head(sorted)>> \o InsertByCn0_ascending(Tail(sorted), x)
       ELSE <<x>> \o sorted

\* the comparator (b.cn0_db_hz ?? 0) - (a.cn0_db_hz ?? 0); Array.prototype.sort is stable
RECURSIVE InsertByCn0(_, _)
InsertByCn0(sorted, x) ==
  IF sorted = <<>> THEN <<x>>
  ELSE IF Head(sorted).cn0_db_hz >= x.cn0_db_hz
       THEN <<Head(sorted)>> \o InsertByCn0(Tail(sorted), x)
       ELSE <<x>> \o sorted

RECURSIVE SortByCn0(_)
SortByCn0(q) ==
  IF q = <<>> THEN <<>>
  ELSE InsertByCn0(SortByCn0(SubSeq(q, 1, Len(q) - 1)), q[Len(q)])

\* Array.prototype.slice(0, end)
Slice(q, end) ==
  LET k == IF end < 0 THEN (IF Len(q) + end < 0 THEN 0 ELSE Len(q) + end)
           ELSE (IF end > Len(q) THEN Len(q) ELSE end)
  IN  SubSeq(q, 1, k)

Limited(q, limit) == IF limit # 0 THEN Slice(q, limit) ELSE q

Values(m) == [i \in 1..Len(m) |-> m[i].s]

\* what getLatestObservables({limit}) returns
ActiveObs(m, now, limit) ==
  Limited(SortByCn0(SelectSeq(Values(m), LAMBDA s : IsFresh(now, s))), limit)

\* a read that also deletes the fresh entries weaker than 42 dB-Hz
Evicted_cut(m, now) ==
  SelectSeq(m, LAMBDA e : IsFresh(now, e.s) /\ e.s.cn0_db_hz >= 42)

\* what getLatestObservables leaves in the map
Evicted(m, now) == SelectSeq(m, LAMBDA e : IsFresh(now, e.s))

\* a summary whose is_live is the has-a-fix test of the consumers
getLatestObservablesMeta_validity(m, now) ==
  [count |-> Len(m),
   pvt_age_ms |-> now - pvt_timestamp,
   obs_age_ms |-> now - obs_last_update_ms,
   is_live |-> (pvt # Null /\ pvt.solution_status # 0 /\ pvt.valid_sats >= 4)]

getLatestObservablesMeta(m, now) ==
  [count |-> Len(m),
   pvt_age_ms |-> now - pvt_timestamp,
   obs_age_ms |-> now - obs_last_update_ms,
   is_live |-> (now - pvt_timestamp < TTL_MS)]

\* ------------------------------------------------------------ server.js
\* req.query.limit
QueryLimits == {[kind |-> "absent", n |-> 0], [kind |-> "nan", n |-> 0]}
                 \cup {[kind |-> "num", n |-> n] : n \in {0 - 1, 0, 1}}

\* Number(req.query.limit ?? 64), then Number.isFinite(limit) ? limit : 64
RouteLimit(q) == IF q.kind = "num" THEN q.n ELSE 64

\* ------------------------------------------------------------ websocket.js
Open == {s \in clients : readyState[s] = "OPEN"}

\* a loop that a throwing send breaks out of
SendTargets_abort(open, throwing) == {s \in open : \A t \in open \cap throwing : s <= t}

\* the clients ws.send is called on: forEach goes on after a send that threw (try/catch)
SendTargets(open, throwing) == open

\* a callback that replays the last published frame to the new client
FramesOnConnect_replay(n) == IF n > 0 THEN <<n>> ELSE <<>>

\* what the "connection" callback sends to the new client: it only logs
FramesOnConnect(n) == <<>>

\* a send that puts the frame ahead of the ones already written to the socket
Send_front(q, n) == <<n>> \o q

\* ws.send(data): the frame is written to the client's socket after the earlier ones
Send(q, n) == Append(q, n)

\* broadcast(obj), with `throwing` the clients whose ws.send throws this time
broadcast(obj, throwing) ==
  IF ~wss THEN UNCHANGED fanout
  ELSE LET targets   == SendTargets(Open, throwing)
           delivered == targets \ throwing
       IN  /\ inbox' = [s \in Clients |->
                          IF s \in delivered THEN Send(inbox[s], Arrived + 1)
                          ELSE inbox[s]]
           /\ pendingSince' = [s \in Clients |->
                          IF s \in delivered /\ pendingSince[s] = NoSend THEN clock
                          ELSE pendingSince[s]]
           /\ UNCHANGED <<wss, clients, readyState>>

\* what the handler's caller sees of a broadcast
Sent(obj, throwing) ==
  IF ~wss THEN [called |-> TRUE, seq |-> 0, sent |-> obj, targets |-> {}, threw |-> {}]
  ELSE [called |-> TRUE, seq |-> Arrived + 1, sent |-> obj,
        targets |-> SendTargets(Open, throwing),
        threw |-> SendTargets(Open, throwing) \cap throwing]

NotSent == [called |-> FALSE, seq |-> 0, sent |-> <<>>, targets |-> {}, threw |-> {}]

\* ------------------------------------------------------------ udp_handlers.js
\* a filter that keeps every entry
NonZeroRate_all(s) == TRUE

NonZeroRate(s) == s.fs # 0

\* the object built from one decoded entry
ObsSample(s, now) ==
  [type |-> "observables", timestamp |-> now, channel_id |-> s.channelId,
   cn0_db_hz |-> s.cn0DbHz]

\* a batch built from the last kept entry to the first
Samples_reversed(observable, now) ==
  LET kept == SelectSeq(observable, NonZeroRate)
  IN  [i \in 1..Len(kept) |-> ObsSample(kept[Len(kept) + 1 - i], now)]

Samples(observable, now) ==
  LET kept == SelectSeq(observable, NonZeroRate)
  IN  [i \in 1..Len(kept) |-> ObsSample(kept[i], now)]

PvtMsg(p, now) ==
  [type |-> "pvt", timestamp |-> now, tow_ms |-> p.towAtCurrentSymbolMs,
   valid_sats |-> p.validSats, solution_status |-> p.solutionStatus]

\* a decode error that is not caught: the exception ends the process
DecodeError_uncaught(handler, buf) ==
  /\ decodeErrors' = decodeErrors + 1
  /\ running' = FALSE
  /\ ev' = [op |-> handler, buf |-> buf, outcome |-> "decode_error", bc |-> NotSent]
  /\ UNCHANGED <<store, fanout>>

\* the catch block of either handler: log and return
DecodeError(handler, buf) ==
  /\ decodeErrors' = decodeErrors + 1
  /\ ev' = [op |-> handler, buf |-> buf, outcome |-> "decode_error", bc |-> NotSent]
  /\ UNCHANGED <<store, fanout, running>>

handleObsUdp(buf, throwing) ==
  IF ~loaded
  THEN /\ ev' = [op |-> "handleObsUdp", buf |-> buf, outcome |-> "no_type", bc |-> NotSent]
       /\ UNCHANGED <<store, fanout, running, decodeErrors>>
  ELSE IF ~buf.ok
  THEN DecodeError("handleObsUdp", buf)
  ELSE LET samples == Samples(buf.observable, clock)
       IN  IF Len(samples) # 0
           THEN /\ updateLatestObservables(samples)
                /\ broadcast(samples, throwing)
                /\ ev' = [op |-> "handleObsUdp", buf |-> buf, outcome |-> "recorded",
                          bc |-> Sent(samples, throwing),
                          replaced |-> {samples[i].channel_id : i \in 1..Len(samples)}
                                         \cap Keys(obs_by_channel)]
                /\ UNCHANGED <<pvt, pvt_timestamp, running, decodeErrors>>
           ELSE /\ ev' = [op |-> "handleObsUdp", buf |-> buf, outcome |-> "empty",
                          bc |-> NotSent]
                /\ UNCHANGED <<store, fanout, running, decodeErrors>>

\* a handler that publishes first and lets a send that throws end it before it records
handlePvtUdp_publishFirst(buf, throwing) ==
  IF ~loaded
  THEN /\ ev' = [op |-> "handlePvtUdp", buf |-> buf, outcome |-> "no_type", bc |-> NotSent]
       /\ UNCHANGED <<store, fanout, running, decodeErrors>>
  ELSE IF ~buf.ok
  THEN DecodeError("handlePvtUdp", buf)
  ELSE LET msg == PvtMsg(buf.pvt, clock)
       IN  /\ broadcast(msg, throwing)
           /\ IF Sent(msg, throwing).threw = {}
              THEN setLatestPvt(msg)
              ELSE UNCHANGED <<pvt, pvt_timestamp>>
           /\ ev' = [op |-> "handlePvtUdp", buf |-> buf, outcome |-> "recorded",
                     bc |-> Sent(msg, throwing), replaced |-> pvt]
           /\ UNCHANGED <<obs_by_channel, obs_last_update_ms, running, decodeErrors>>

handlePvtUdp(buf, throwing) ==
  IF ~loaded
  THEN /\ ev' = [op |-> "handlePvtUdp", buf |-> buf, outcome |-> "no_type", bc |-> NotSent]
       /\ UNCHANGED <<store, fanout, running, decodeErrors>>
  ELSE IF ~buf.ok
  THEN DecodeError("handlePvtUdp", buf)
  ELSE LET msg == PvtMsg(buf.pvt, clock)
       IN  /\ setLatestPvt(msg)
           /\ broadcast(msg, throwing)
           /\ ev' = [op |-> "handlePvtUdp", buf |-> buf, outcome |-> "recorded",
                     bc |-> Sent(msg, throwing), replaced |-> pvt]
           /\ UNCHANGED <<obs_by_channel, obs_last_update_ms, running, decodeErrors>>

\* ------------------------------------------------------------ actions
Init ==
  /\ clock = StartClock
  /\ pvt = Null
  /\ pvt_timestamp = 0
  /\ obs_by_channel = <<>>
  /\ obs_last_update_ms = 0
  /\ wss = TRUE
  /\ clients = {}
  /\ readyState = [s \in Clients |-> "CLOSED"]
  /\ inbox = [s \in Clients |-> <<>>]
  /\ pendingSince = [s \in Clients |-> NoSend]
  /\ loaded = FALSE
  /\ udp = [obs |-> "unbound", pvt |-> "unbound"]
  /\ running = TRUE
  /\ decodeErrors = 0
  /\ nTicks = 0
  /\ nDgrams = 0
  /\ ev = [op |-> "startup"]

\* what the two bind calls can end in: a "listening" event, or an "error" event, which
\* the socket's error listener logs
BindOutcomes == [obs : {"listening", "error"}, pvt : {"listening", "error"}]

\* loadProtobufs resolves; initUdpReceivers creates the two sockets and binds them, and each
\* bind ends in one of `outcomes`
StartReceivers(outcomes) ==
  /\ running /\ ~loaded
  /\ loaded' = TRUE
  /\ udp' \in outcomes
  /\ ev' = [op |-> "loadProtobufs"]
  /\ UNCHANGED <<clock, store, fanout, running, decodeErrors, nTicks, nDgrams>>

\* both sockets get their port
LoadProtobufsOk == StartReceivers({[obs |-> "listening", pvt |-> "listening"]})

\* each socket gets its port or not
InitUdpReceivers == StartReceivers(BindOutcomes)

\* loadProtobufs catches the load error and calls process.exit(1)
LoadProtobufsFail ==
  /\ running /\ ~loaded
  /\ running' = FALSE
  /\ ev' = [op |-> "exit"]
  /\ UNCHANGED <<clock, store, fanout, loaded, udp, decodeErrors, nTicks, nDgrams>>

\* the wall clock moves forward by one of the steps
TickBy(steps) ==
  /\ running /\ nTicks < MaxTicks
  /\ \E d \in steps : clock' = clock + d
  /\ nTicks' = nTicks + 1
  /\ ev' = [op |-> "clock"]
  /\ UNCHANGED <<store, fanout, loaded, udp, running, decodeErrors, nDgrams>>

Tick == TickBy(TickSteps)

\* the wall clock is set back (Date.now() is not monotonic)
ClockBack ==
  /\ running /\ nTicks < MaxTicks
  /\ clock' = clock - 1
  /\ nTicks' = nTicks + 1
  /\ ev' = [op |-> "clock"]
  /\ UNCHANGED <<store, fanout, loaded, udp, running, decodeErrors, nDgrams>>

\* the datagram may arrive: its socket is listening and the exploration bounds leave room
Arrives(sock, buf) ==
  /\ running /\ loaded /\ udp[sock] = "listening"
  /\ IF buf.ok THEN nDgrams < MaxDgrams ELSE decodeErrors < MaxBad

\* a datagram of `dgrams` arrives on the observables port
ObsDatagramFrom(dgrams) ==
  /\ \E buf \in dgrams, throwing \in SUBSET Open :
       /\ Arrives("obs", buf)
       /\ handleObsUdp(buf, throwing)
       /\ nDgrams' = (IF buf.ok THEN nDgrams + 1 ELSE nDgrams)
  /\ UNCHANGED <<clock, loaded, udp, nTicks>>

\* a datagram of `dgrams` arrives on the PVT port
PvtDatagramFrom(dgrams) ==
  /\ \E buf \in dgrams, throwing \in SUBSET Open :
       /\ Arrives("pvt", buf)
       /\ handlePvtUdp(buf, throwing)
       /\ nDgrams' = (IF buf.ok THEN nDgrams + 1 ELSE nDgrams)
  /\ UNCHANGED <<clock, loaded, udp, nTicks>>

ObsDatagram == ObsDatagramFrom(ObsDatagrams)
PvtDatagram == PvtDatagramFrom(PvtDatagrams)

\* a request that clears the slot when the fix has expired
GetPvt_clearExpired ==
  /\ running
  /\ ev' = [op |-> "GET pvt", ok |-> TRUE, pvt |-> getLatestPvt]
  /\ pvt' = getLatestPvt
  /\ UNCHANGED <<clock, pvt_timestamp, obs_by_channel, obs_last_update_ms, fanout, loaded,
                 udp, running, decodeErrors, nTicks, nDgrams>>

\* GET /api/latest/pvt
GetPvt ==
  /\ running
  /\ ev' = [op |-> "GET pvt", ok |-> TRUE, pvt |-> getLatestPvt]
  /\ UNCHANGED <<clock, store, fanout, loaded, udp, running, decodeErrors, nTicks, nDgrams>>

\* GET /api/latest/observables: getLatestObservables reads Date.now(), then
\* getLatestObservablesMeta reads it again, `lag` milliseconds later
GetObservablesLag(lags) ==
  /\ running
  /\ \E q \in QueryLimits, lag \in lags :
       LET limit == RouteLimit(q)
       IN  /\ lag > 0 => nTicks < MaxTicks
           /\ obs_by_channel' = Evicted(obs_by_channel, clock)
           /\ clock' = clock + lag
           /\ nTicks' = IF lag > 0 THEN nTicks + 1 ELSE nTicks
           /\ ev' = [op |-> "GET observables", ok |-> TRUE, limit |-> limit,
                     evicted |-> Keys(obs_by_channel) \ Keys(Evicted(obs_by_channel, clock)),
                     observables |-> ActiveObs(obs_by_channel, clock, limit),
                     meta |-> getLatestObservablesMeta(Evicted(obs_by_channel, clock),
                                                       clock + lag)]
  /\ UNCHANGED <<pvt, pvt_timestamp, obs_last_update_ms, fanout, loaded, udp, running,
                 decodeErrors, nDgrams>>

\* the request served within one millisecond
GetObservables == GetObservablesLag({0})

\* the request served within one millisecond or across a millisecond boundary
GetObservablesAnyLag == GetObservablesLag({0, 1})

\* a consumer completes the WebSocket handshake on /ws
Connect ==
  /\ running /\ wss
  /\ \E s \in Clients \ clients :
       /\ clients' = clients \cup {s}
       /\ readyState' = [readyState EXCEPT ![s] = "OPEN"]
       /\ inbox' = [inbox EXCEPT ![s] = FramesOnConnect(Arrived)]
       /\ pendingSince' = [pendingSince EXCEPT ![s] = NoSend]
       /\ ev' = [op |-> "connection", client |-> s]
  /\ UNCHANGED <<clock, store, wss, loaded, udp, running, decodeErrors, nTicks, nDgrams>>

\* a closing handshake starts: the socket stays in wss.clients, no longer OPEN
BeginClose ==
  /\ running
  /\ \E s \in Open :
       /\ readyState' = [readyState EXCEPT ![s] = "CLOSING"]
       /\ ev' = [op |-> "closing", client |-> s]
  /\ UNCHANGED <<clock, store, wss, clients, inbox, pendingSince, loaded, udp, running,
                 decodeErrors, nTicks, nDgrams>>

\* the socket closes: ws removes it from wss.clients and emits "close"
Closed ==
  /\ running
  /\ \E s \in clients :
       /\ clients' = clients \ {s}
       /\ readyState' = [readyState EXCEPT ![s] = "CLOSED"]
       /\ inbox' = [inbox EXCEPT ![s] = <<>>]
       /\ pendingSince' = [pendingSince EXCEPT ![s] = NoSend]
       /\ ev' = [op |-> "close", client |-> s]
  /\ UNCHANGED <<clock, store, wss, loaded, udp, running, decodeErrors, nTicks, nDgrams>>

\* the consumer takes everything buffered for it: its pending sends complete
ConsumerReads ==
  /\ running
  /\ \E s \in clients :
       /\ pendingSince[s] # NoSend
       /\ pendingSince' = [pendingSince EXCEPT ![s] = NoSend]
       /\ ev' = [op |-> "drain", client |-> s]
  /\ UNCHANGED <<clock, store, wss, clients, readyState, inbox, loaded, udp, running,
                 decodeErrors, nTicks, nDgrams>>

Next ==
  \/ LoadProtobufsOk
  \/ LoadProtobufsFail
  \/ Tick
  \/ ClockBack
  \/ ObsDatagram
  \/ PvtDatagram
  \/ GetPvt
  \/ GetObservables
  \/ Connect
  \/ BeginClose
  \/ Closed
  \/ ConsumerReads

Spec == Init /\ [][Next]_vars

\* the store and the snapshot routes under every datagram that decodes, with a clock that
\* moves forward and no consumer connected
ObsDecoded == ObsDatagramFrom({d \in ObsDatagrams : d.ok})
PvtDecoded == PvtDatagramFrom({d \in PvtDatagrams : d.ok})

NextStore ==
  \/ LoadProtobufsOk
  \/ LoadProtobufsFail
  \/ Tick
  \/ ObsDecoded
  \/ PvtDecoded
  \/ GetPvt
  \/ GetObservables

SpecStore == Init /\ [][NextStore]_vars

\* the fan-out with consumers connecting, closing and throwing, at one instant of the clock;
\* the datagrams are the malformed ones, the batches of at most one entry for one channel
\* at one strength, and one fix
ObsDatagram1 ==
  ObsDatagramFrom({d \in ObsDatagrams :
                     /\ Len(d.observable) <= 1
                     /\ \A i \in 1..Len(d.observable) :
                           d.observable[i].channelId = 3 /\ d.observable[i].cn0DbHz = 30})

PvtDatagram1 == PvtDatagramFrom({d \in PvtDatagrams : d.pvt.validSats # 3})

NextFanout ==
  \/ LoadProtobufsOk
  \/ ObsDatagram1
  \/ PvtDatagram1
  \/ Connect
  \/ BeginClose
  \/ Closed

SpecFanout == Init /\ [][NextFanout]_vars

\* consumers that stop taking their frames while the clock runs
NextSlow ==
  \/ LoadProtobufsOk
  \/ Tick
  \/ PvtDatagram1
  \/ Connect
  \/ Closed
  \/ ConsumerReads

SpecSlow == Init /\ [][NextSlow]_vars

\* the clock moves to just short of the TTL, or by a millisecond
TickNearTtl == TickBy({1, TTL_MS - 1})

\* snapshot requests that may straddle a millisecond boundary, no consumer connected
NextMeta ==
  \/ LoadProtobufsOk
  \/ TickNearTtl
  \/ ObsDecoded
  \/ PvtDecoded
  \/ GetObservablesAnyLag

SpecMeta == Init /\ [][NextMeta]_vars

\* startup with every outcome of the two binds, then datagrams, requests and consumers
NextStartup ==
  \/ InitUdpReceivers
  \/ LoadProtobufsFail
  \/ ObsDecoded
  \/ PvtDecoded
  \/ GetPvt
  \/ Connect

SpecStartup == Init /\ [][NextStartup]_vars

\* batches of two entries or more reaching connected consumers, at one instant of the
\* clock; the entries are the strong ones and the zero-rate one
ObsBatch ==
  ObsDatagramFrom({d \in ObsDatagrams :
                     /\ d.ok /\ Len(d.observable) >= 2
                     /\ \A i \in 1..Len(d.observable) :
                           d.observable[i].cn0DbHz = 42 \/ d.observable[i].fs = 0})

NextBatch ==
  \/ LoadProtobufsOk
  \/ ObsBatch
  \/ Connect

SpecBatch == Init /\ [][NextBatch]_vars

\* the clock moves past the TTL, or by a millisecond
TickPastTtl == TickBy({1, TTL_MS + 1})

\* the store and the snapshot routes under a wall clock that moves forward and is set back
NextClock ==
  \/ LoadProtobufsOk
  \/ TickPastTtl
  \/ ClockBack
  \/ ObsDecoded
  \/ PvtDecoded
  \/ GetPvt
  \/ GetObservables

SpecClock == Init /\ [][NextClock]_vars


\* ================================================================ properties
Range(q) == {q[i] : i \in 1..Len(q)}

\* ---------------------------------------------------------------------- C1
\* C1 (as claimed): a recorded fix is returned by getLatestPvt exactly when
\* now - arrival < TTL; at now - arrival = TTL and later the answer is null.
C1_PvtFreshIffWithinTtl ==
  (ev.op = "GET pvt" /\ pvt # Null) =>
     ev.pvt = (IF clock - pvt_timestamp < TTL_MS THEN pvt ELSE Null)

\* ---------------------------------------------------------------------- C2
\* the entries of the map that are fresh at `now`
FreshAt(m, now) == {e.s : e \in {x \in Range(m) : now - x.s._received_at < TTL_MS}}

\* C2 (as claimed): the snapshot is exactly the set of entries with
\* now - arrival < TTL, whatever the call.
C2_SnapshotIsAllFresh ==
  [][ev'.op = "GET observables" =>
       Range(ev'.observables) = FreshAt(obs_by_channel, clock)]_vars

\* C2 (amended): the snapshot never holds an entry with now - arrival >= TTL, and
\* it holds every fresh entry when the limit is 0 or at least their number.
C2_SnapshotFreshUpToLimit ==
  [][ev'.op = "GET observables" =>
       LET fresh == FreshAt(obs_by_channel, clock)
       IN  /\ Range(ev'.observables) \subseteq fresh
           /\ (ev'.limit = 0 \/ ev'.limit >= Cardinality(fresh))
                 => Range(ev'.observables) = fresh]_vars

\* a snapshot that dropped a stale channel and returned a fresh one
C2_Witness ==
  /\ ev.op = "GET observables"
  /\ ev.evicted # {}
  /\ ev.observables # <<>>
  /\ ev.limit >= Len(ev.observables)

\* ---------------------------------------------------------------------- C3
\* C3: the slot holds the fix of the last setLatestPvt call, whatever epoch it
\* carries; the slot changes only by such a call, and getLatestPvt answers
\* null or the slot.
C3_SingleSlotLastArrivalWins ==
  /\ [](getLatestPvt \in {Null, pvt})
  /\ []((ev.op = "handlePvtUdp" /\ ev.outcome = "recorded") => pvt = ev.bc.sent)
  /\ [][pvt' # pvt => (ev'.op = "handlePvtUdp" /\ ev'.outcome = "recorded")]_vars

\* a fix with an earlier epoch replaced one with a later epoch and is the one returned
C3_Witness ==
  /\ ev.op = "handlePvtUdp" /\ ev.outcome = "recorded"
  /\ ev.replaced # Null
  /\ ev.replaced.tow_ms > ev.bc.sent.tow_ms
  /\ getLatestPvt = ev.bc.sent

\* ---------------------------------------------------------------------- C4
\* the last sample of the batch for channel c
LastFor(samples, c) ==
  samples[CHOOSE i \in 1..Len(samples) :
            /\ samples[i].channel_id = c
            /\ \A j \in (i + 1)..Len(samples) : samples[j].channel_id # c]

\* C4: the map has one entry per channel id, the entry of a channel is the last
\* sample recorded for it (only a recorded datagram that names the channel sets
\* it), and a snapshot names every channel at most once.
C4_OneEntryPerChannel ==
  /\ [](\A i, j \in 1..Len(obs_by_channel) :
          /\ obs_by_channel[i].id = obs_by_channel[i].s.channel_id
          /\ (i # j => obs_by_channel[i].id # obs_by_channel[j].id))
  /\ []((ev.op = "handleObsUdp" /\ ev.outcome = "recorded") =>
          \A c \in {ev.bc.sent[i].channel_id : i \in 1..Len(ev.bc.sent)} :
             \E i \in 1..Len(obs_by_channel) :
                /\ obs_by_channel[i].id = c
                /\ obs_by_channel[i].s.cn0_db_hz = LastFor(ev.bc.sent, c).cn0_db_hz
                /\ obs_by_channel[i].s._received_at = clock)
  /\ [][\A c \in ChannelIds :
          (MapHas(obs_by_channel', c)
             /\ (MapHas(obs_by_channel, c) => MapGet(obs_by_channel', c) # MapGet(obs_by_channel, c)))
          => (ev'.op = "handleObsUdp" /\ ev'.outcome = "recorded"
                /\ \E i \in 1..Len(ev'.bc.sent) : ev'.bc.sent[i].channel_id = c)]_vars
  /\ [](ev.op = "GET observables" =>
          \A i, j \in 1..Len(ev.observables) :
             i # j => ev.observables[i].channel_id # ev.observables[j].channel_id)

\* channel 3 was recorded again while channel 7 is stored: two entries, keyed 3 and 7
C4_Witness ==
  /\ ev.op = "handleObsUdp" /\ ev.outcome = "recorded"
  /\ 3 \in ev.replaced
  /\ Keys(obs_by_channel) = {3, 7}
  /\ Len(obs_by_channel) = 2

\* ---------------------------------------------------------------------- C5
\* the channels of the datagram that have an entry with a sampling rate
Tracked(observable) == {e.channelId : e \in {x \in Range(observable) : x.fs # 0}}

\* C5: a zero-rate entry is neither stored nor broadcast; the stored entry of a
\* channel that the datagram names only at rate 0 keeps its value and arrival time.
C5_ZeroRateFiltered ==
  [][ev'.op = "handleObsUdp" =>
       /\ \A c \in ChannelIds \ Tracked(ev'.buf.observable) :
             /\ MapHas(obs_by_channel', c) = MapHas(obs_by_channel, c)
             /\ MapHas(obs_by_channel, c) =>
                   MapGet(obs_by_channel', c) = MapGet(obs_by_channel, c)
       /\ ev'.bc.called =>
             /\ Len(ev'.bc.sent) =
                  Cardinality({i \in 1..Len(ev'.buf.observable) : ev'.buf.observable[i].fs # 0})
             /\ \A i \in 1..Len(ev'.bc.sent) :
                   \E e \in Range(ev'.buf.observable) :
                      /\ e.fs # 0
                      /\ e.channelId = ev'.bc.sent[i].channel_id
                      /\ e.cn0DbHz = ev'.bc.sent[i].cn0_db_hz]_vars

\* a datagram with a zero-rate entry for a stored channel left that entry as it was
C5_Witness ==
  /\ ev.op = "handleObsUdp" /\ ev.outcome = "recorded"
  /\ \E e \in Range(ev.buf.observable) :
        /\ e.fs = 0
        /\ e.channelId \notin Tracked(ev.buf.observable)
        /\ MapHas(obs_by_channel, e.channelId)
        /\ MapGet(obs_by_channel, e.channelId)._received_at < clock
        /\ MapGet(obs_by_channel, e.channelId).cn0_db_hz # e.cn0DbHz

\* ---------------------------------------------------------------------- C6
\* C6: a datagram that does not decode changes nothing in the store, sends
\* nothing and leaves the process running; a datagram that decodes after it is
\* recorded and published.
C6_DecodeFailureIsolated ==
  /\ [][(ev'.op \in {"handleObsUdp", "handlePvtUdp"} /\ ~ev'.buf.ok) =>
          /\ ev'.outcome = "decode_error"
          /\ UNCHANGED <<pvt, pvt_timestamp, obs_by_channel, obs_last_update_ms>>
          /\ UNCHANGED inbox
          /\ ~ev'.bc.called
          /\ running']_vars
  /\ []((decodeErrors > 0 /\ nDgrams < MaxDgrams) =>
          (running /\ ENABLED ObsDatagram /\ ENABLED PvtDatagram))
  /\ []((decodeErrors > 0 /\ ev.op = "handlePvtUdp" /\ ev.buf.ok) =>
          (pvt = ev.bc.sent /\ pvt_timestamp = clock /\ ev.bc.called))
  /\ []((decodeErrors > 0 /\ ev.op = "handleObsUdp" /\ ev.buf.ok
           /\ Tracked(ev.buf.observable) # {}) =>
          (Tracked(ev.buf.observable) \subseteq Keys(obs_by_channel)
             /\ obs_last_update_ms = clock /\ ev.bc.called))

\* a malformed datagram between two valid ones: both are recorded
C6_Witness ==
  /\ decodeErrors = 1 /\ nDgrams = 2
  /\ ev.op = "handlePvtUdp" /\ ev.outcome = "recorded"
  /\ pvt = ev.bc.sent
  /\ obs_by_channel # <<>>
  /\ \E s \in clients : inbox[s] = <<1, 3>>

\* ---------------------------------------------------------------------- C7
\* C7: a broadcast calls ws.send once on every client that is in wss.clients
\* and OPEN, also on the clients after one whose send throws; every client whose
\* send did not throw gets the frame once, and the handler returns normally.
C7_BroadcastReachesEveryOpenClient ==
  [][(ev'.op \in {"handleObsUdp", "handlePvtUdp"} /\ ev'.bc.called) =>
       LET open == {s \in clients : readyState[s] = "OPEN"}
       IN  /\ ev'.bc.targets = open
           /\ ev'.bc.threw \subseteq open
           /\ \A s \in Clients :
                 inbox'[s] = (IF s \in open \ ev'.bc.threw
                              THEN Append(inbox[s], ev'.bc.seq) ELSE inbox[s])
           /\ ev'.outcome = "recorded"
           /\ running']_vars

\* the send to client 1 threw and client 2 still received the frame
C7_Witness ==
  /\ ev.op \in {"handleObsUdp", "handlePvtUdp"} /\ ev.bc.called
  /\ ev.bc.threw = {1}
  /\ 2 \in ev.bc.targets
  /\ inbox[2] # <<>>
  /\ inbox[2][Len(inbox[2])] = ev.bc.seq

\* ---------------------------------------------------------------------- C8
\* C8 (as claimed): a client whose send failed during a broadcast is no longer
\* in the subscriber set when the broadcast returns.
C8_FailedSubscriberRemoved ==
  (ev.op \in {"handleObsUdp", "handlePvtUdp"} /\ ev.bc.called) =>
     ev.bc.threw \cap clients = {}

\* ---------------------------------------------------------------------- C9
\* C9 (as claimed): no client stays in the subscriber set with a send that has
\* been incomplete for longer than the send timeout.
C9_SlowSubscriberDropped ==
  \A s \in clients :
     pendingSince[s] # NoSend => clock - pendingSince[s] <= SendTimeout

\* --------------------------------------------------------------------- C10
\* C10: a client starts with no frame at all, receives only the frame of the
\* broadcast being made while it is connected and OPEN, and nothing is kept for
\* a client that is not connected.
C10_NoReplay ==
  /\ [][\A s \in Clients :
          /\ (s \notin clients /\ s \in clients') => inbox'[s] = <<>>
          /\ (s \in clients /\ s \in clients' /\ inbox'[s] # inbox[s]) =>
                /\ readyState[s] = "OPEN"
                /\ ev'.op \in {"handleObsUdp", "handlePvtUdp"} /\ ev'.bc.called
                /\ inbox'[s] = Append(inbox[s], Arrived')]_vars
  /\ [](\A s \in Clients \ clients : inbox[s] = <<>>)

\* a client that connected after the first broadcast holds the second frame only
C10_Witness ==
  \E s, t \in clients :
     /\ Len(inbox[t]) = 2
     /\ inbox[s] = <<inbox[t][2]>>

\* --------------------------------------------------------------------- C11
\* C11: what a client has received is in the order of the broadcast calls: the
\* frames in a client's stream carry strictly increasing call numbers, however
\* the two datagram handlers, connections and disconnections interleave.
C11_ReceivedInBroadcastOrder ==
  \A s \in Clients :
     \A i, j \in 1..Len(inbox[s]) : i < j => inbox[s][i] < inbox[s][j]

\* a client holds the frame of an observables datagram and, after it, the frame
\* of the PVT datagram just handled
C11_Witness ==
  /\ nDgrams = 2 /\ ev.op = "handlePvtUdp" /\ ev.bc.called
  /\ obs_by_channel # <<>>
  /\ \E s \in clients : Len(inbox[s]) = 2 /\ inbox[s][2] = ev.bc.seq

\* --------------------------------------------------------------------- C12
\* position of channel c in the map's iteration order
PosOf(m, c) == CHOOSE k \in 1..Len(m) : m[k].id = c

\* C12: the list a snapshot read returns is in descending cn0_db_hz, and entries
\* of equal cn0_db_hz are in the map's iteration order, so the order is fixed by
\* the store contents.
C12_SortedByDescendingCn0 ==
  ev.op = "GET observables" =>
     LET r == ev.observables
     IN  /\ \A i \in 1..(Len(r) - 1) : r[i].cn0_db_hz >= r[i + 1].cn0_db_hz
         /\ \A i, j \in 1..Len(r) :
               (i < j /\ r[i].cn0_db_hz = r[j].cn0_db_hz) =>
                  PosOf(obs_by_channel, r[i].channel_id)
                     < PosOf(obs_by_channel, r[j].channel_id)

\* channel 3 was stored before channel 7, and the read returns the stronger
\* channel 7 first
C12_Witness ==
  /\ ev.op = "GET observables"
  /\ Len(ev.observables) = 2
  /\ ev.observables[1].channel_id = 7 /\ ev.observables[2].channel_id = 3
  /\ ev.observables[1].cn0_db_hz > ev.observables[2].cn0_db_hz
  /\ obs_by_channel[1].id = 3

\* --------------------------------------------------------------------- C13
\* the fresh entries of map m at time now, strongest first
Strongest(m, now) == SortByCn0(SelectSeq(Values(m), LAMBDA s : now - s._received_at < TTL_MS))

\* C13 (as claimed): whatever integer limit the caller supplies, 0 and negative
\* values included, a snapshot request returns at most `limit` entries (none
\* when the limit is 0 or negative), and they are the strongest fresh ones.
C13_AtMostLimitStrongest ==
  [][ev'.op = "GET observables" =>
       LET all == Strongest(obs_by_channel, clock)
           cap == IF ev'.limit < 0 THEN 0 ELSE ev'.limit
           k   == IF Len(all) < cap THEN Len(all) ELSE cap
       IN  ev'.observables = SubSeq(all, 1, k)]_vars

\* --------------------------------------------------------------------- C14
\* C14 (as claimed): the count getLatestObservablesMeta reports is the number of
\* channels whose entry is fresh at that moment, both in the summary a snapshot
\* request has just answered with and in any state the store can be in.
C14_CountIsFreshCount ==
  /\ ev.op = "GET observables" =>
        ev.meta.count = Cardinality(FreshAt(obs_by_channel, clock))
  /\ getLatestObservablesMeta(obs_by_channel, clock).count
        = Cardinality(FreshAt(obs_by_channel, clock))

\* --------------------------------------------------------------------- C15
\* C15 (as claimed): is_live follows the validity of the latest fix: false after
\* a fix with valid_sats = 3 and solution_status = 0, true after a fix with
\* valid_sats = 6 and solution_status = 4.
C15_IsLiveReflectsValidity ==
  (ev.op = "GET observables" /\ pvt # Null /\ clock - pvt_timestamp < TTL_MS) =>
     /\ (pvt.valid_sats = 3 /\ pvt.solution_status = 0) => ev.meta.is_live = FALSE
     /\ (pvt.valid_sats = 6 /\ pvt.solution_status = 4) => ev.meta.is_live = TRUE

\* C15 (amended): is_live follows the age of the latest fix only: it is true
\* exactly when a fix has been recorded less than TTL ago, whatever the fix's
\* valid_sats and solution_status.
C15_IsLiveIsPvtFreshness ==
  ev.op = "GET observables" =>
     ev.meta.is_live = (pvt # Null /\ clock - pvt_timestamp < TTL_MS)

\* the summary says live while the latest fix has 3 satellites and no solution
C15_Witness ==
  /\ ev.op = "GET observables"
  /\ pvt # Null /\ pvt.valid_sats = 3 /\ pvt.solution_status = 0
  /\ ev.meta.is_live

\* --------------------------------------------------------------------- C16
\* C16 (as claimed): a listener whose bind failed means the process has exited:
\* in no state is the process running, with its HTTP/WebSocket server or the
\* other listener serving, while a listener's bind has failed.
C16_BindFailureExits ==
  running => (udp.obs # "error" /\ udp.pvt # "error")

\* --------------------------------------------------------------------- C17
\* C17: the snapshot routes answer ok = true whatever is stored; a PVT request
\* answers pvt = null when no fix was recorded or the fix is older than TTL,
\* and an observables request answers an empty list when the map is empty or
\* every entry in it is older than TTL.
C17_MissingOrStaleIsNotAnError ==
  [][/\ ev'.op = "GET pvt" =>
          /\ ev'.ok
          /\ (pvt = Null \/ clock - pvt_timestamp > TTL_MS) => ev'.pvt = Null
     /\ ev'.op = "GET observables" =>
          /\ ev'.ok
          /\ (\A e \in Range(obs_by_channel) : clock - e.s._received_at > TTL_MS)
                => ev'.observables = <<>>]_vars

\* a fix and a channel entry are stored, both older than TTL, and the PVT
\* request has just answered null
C17_Witness ==
  /\ ev.op = "GET pvt" /\ ev.ok /\ ev.pvt = Null
  /\ pvt # Null /\ clock - pvt_timestamp > TTL_MS
  /\ obs_by_channel # <<>>
  /\ \A e \in Range(obs_by_channel) : clock - e.s._received_at > TTL_MS

\* --------------------------------------------------------------------- C18
\* C18: a snapshot read leaves in the map exactly the entries that were fresh
\* at the read, in their order, those cut from the result by the limit
\* included; and a step that removes a channel from the map is a snapshot read.
C18_LazyEviction ==
  [][/\ ev'.op = "GET observables" =>
          /\ obs_by_channel'
                = SelectSeq(obs_by_channel,
                            LAMBDA e : clock - e.s._received_at < TTL_MS)
          /\ Range(ev'.observables) \subseteq {e.s : e \in Range(obs_by_channel')}
     /\ ~(Keys(obs_by_channel) \subseteq Keys(obs_by_channel')) =>
          ev'.op = "GET observables"]_vars

\* a read with limit 1 has returned one of two fresh entries and kept both
C18_Witness ==
  /\ ev.op = "GET observables" /\ ev.limit = 1
  /\ Len(ev.observables) = 1
  /\ Len(obs_by_channel) = 2

\* --------------------------------------------------------------------- C19
\* the datagram yields a message: a fix, or a batch with a non-zero-rate entry
Yields(op, buf) == op = "handlePvtUdp" \/ Tracked(buf.observable) # {}

\* C19 (as claimed): every datagram that decodes is recorded once and
\* published once.
C19_EveryDecodedDatagramRecordedAndPublished ==
  [][(ev'.op \in {"handleObsUdp", "handlePvtUdp"} /\ ev'.buf.ok) =>
        (ev'.outcome = "recorded" /\ ev'.bc.called)]_vars

\* C19 (amended): a decoded datagram that yields a message is recorded once and
\* published once, and when its frame is in a client's stream the store already
\* holds it; a decoded observables datagram with no non-zero-rate entry is
\* neither recorded nor published.
C19_DecodedDatagramRecordedThenPublished ==
  [][(ev'.op \in {"handleObsUdp", "handlePvtUdp"} /\ ev'.buf.ok) =>
        IF Yields(ev'.op, ev'.buf)
        THEN /\ ev'.outcome = "recorded" /\ ev'.bc.called
             /\ ev'.op = "handlePvtUdp" =>
                   /\ pvt' = ev'.bc.sent /\ pvt_timestamp' = clock
                   /\ UNCHANGED <<obs_by_channel, obs_last_update_ms>>
             /\ ev'.op = "handleObsUdp" =>
                   /\ obs_last_update_ms' = clock
                   /\ \A s \in Range(ev'.bc.sent) :
                         /\ MapHas(obs_by_channel', s.channel_id)
                         /\ MapGet(obs_by_channel', s.channel_id)._received_at = clock
                   /\ UNCHANGED <<pvt, pvt_timestamp>>
             /\ \A s \in Clients :
                   \/ inbox'[s] = inbox[s]
                   \/ inbox'[s] = Append(inbox[s], ev'.bc.seq)
             /\ \A s \in ev'.bc.targets \ ev'.bc.threw :
                   inbox'[s] = Append(inbox[s], ev'.bc.seq)
        ELSE /\ ev'.outcome = "empty" /\ ~ev'.bc.called
             /\ UNCHANGED <<store, inbox>>]_vars

\* a client holds the frame of the observables datagram just handled, and the
\* map holds the datagram's entry with this arrival time
C19_Witness ==
  /\ ev.op = "handleObsUdp" /\ ev.outcome = "recorded"
  /\ \E s \in clients :
        /\ inbox[s] # <<>>
        /\ inbox[s][Len(inbox[s])] = ev.bc.seq
  /\ MapHas(obs_by_channel, 3)
  /\ MapGet(obs_by_channel, 3)._received_at = obs_last_update_ms

\* --------------------------------------------------------------------- C20
\* the non-zero-rate entries of a datagram, in the datagram's order
RECURSIVE KeptInOrder(_)
KeptInOrder(observable) ==
  IF observable = <<>> THEN <<>>
  ELSE IF Head(observable).fs = 0 THEN KeptInOrder(Tail(observable))
  ELSE <<Head(observable)>> \o KeptInOrder(Tail(observable))

\* C20: handling one observables datagram puts at most one frame in a client's
\* stream, and the batch it publishes has one sample per non-zero-rate entry of
\* the datagram, in the datagram's order; with no such entry nothing is
\* published.
C20_BatchPublishedAsOneUnit ==
  [][ev'.op = "handleObsUdp" =>
       LET kept == KeptInOrder(ev'.buf.observable)
       IN  /\ \A s \in Clients :
                \/ inbox'[s] = inbox[s]
                \/ inbox'[s] = Append(inbox[s], Arrived')
           /\ ev'.bc.called = (ev'.buf.ok /\ kept # <<>>)
           /\ ev'.bc.called =>
                /\ Len(ev'.bc.sent) = Len(kept)
                /\ \A i \in 1..Len(kept) :
                      /\ ev'.bc.sent[i].channel_id = kept[i].channelId
                      /\ ev'.bc.sent[i].cn0_db_hz = kept[i].cn0DbHz]_vars

\* a datagram naming channel 3 and then channel 7 has reached a client as one
\* frame of two samples in that order
C20_Witness ==
  /\ ev.op = "handleObsUdp" /\ ev.bc.called
  /\ Len(ev.bc.sent) = 2
  /\ ev.bc.sent[1].channel_id = 3 /\ ev.bc.sent[2].channel_id = 7
  /\ \E s \in clients : inbox[s] = <<ev.bc.seq>>

\* --------------------------------------------------------------------- C21
\* C21: every state a handler leaves, and so every state a read runs in, has
\* whole slots: the stored fix is paired with the timestamp written by the call
\* that stored it, each map entry has the channel, the fields and the arrival
\* time of one sample, and a read returns stored objects whole.
C21_NoTornRead ==
  /\ pvt # Null => pvt.timestamp = pvt_timestamp
  /\ \A e \in Range(obs_by_channel) :
        e.s.channel_id = e.id /\ e.s.timestamp = e.s._received_at
  /\ (ev.op = "GET pvt" /\ ev.pvt # Null) =>
        ev.pvt = pvt /\ ev.pvt.timestamp = pvt_timestamp
  /\ ev.op = "GET observables" =>
        \A s \in Range(ev.observables) :
           /\ s.timestamp = s._received_at
           /\ MapHas(obs_by_channel, s.channel_id)
           /\ MapGet(obs_by_channel, s.channel_id) = s

\* a second fix has replaced the first at a later time, and a PVT request has
\* returned it with its own timestamp
C21_Witness ==
  /\ ev.op = "GET pvt" /\ ev.pvt # Null
  /\ nDgrams = 2 /\ obs_by_channel = <<>>
  /\ pvt_timestamp > StartClock
  /\ ev.pvt.timestamp = pvt_timestamp

\* --------------------------------------------------------------------- C22
\* two samples, or two fixes, that differ at most in their timestamps
SameSample(a, b) ==
  a.type = b.type /\ a.channel_id = b.channel_id /\ a.cn0_db_hz = b.cn0_db_hz

SameFix(a, b) ==
  /\ a.type = b.type /\ a.tow_ms = b.tow_ms
  /\ a.valid_sats = b.valid_sats /\ a.solution_status = b.solution_status

\* map m is as the batch leaves it: every channel of the batch holds the values
\* of the batch's last sample for it
AlreadyHolds(m, samples) ==
  \A i \in 1..Len(samples) :
     /\ MapHas(m, samples[i].channel_id)
     /\ SameSample(MapGet(m, samples[i].channel_id),
                   LastFor(samples, samples[i].channel_id))

\* C22: recording an input that the store already holds changes nothing but
\* arrival times: the map keeps its channels, their order and their values
\* with no entry added, and the slot keeps the same fix; only the arrival time
\* of what was recorded moves to the time of the call.
C22_RecordingIsIdempotent ==
  [][/\ (ev'.op = "handleObsUdp" /\ ev'.outcome = "recorded"
           /\ AlreadyHolds(obs_by_channel, ev'.bc.sent)) =>
          /\ Len(obs_by_channel') = Len(obs_by_channel)
          /\ \A i \in 1..Len(obs_by_channel) :
                /\ obs_by_channel'[i].id = obs_by_channel[i].id
                /\ SameSample(obs_by_channel'[i].s, obs_by_channel[i].s)
                /\ obs_by_channel'[i].s._received_at
                      \in {obs_by_channel[i].s._received_at, clock}
     /\ (ev'.op = "handlePvtUdp" /\ ev'.outcome = "recorded"
           /\ pvt # Null /\ SameFix(pvt, ev'.bc.sent)) =>
          /\ SameFix(pvt', pvt)
          /\ pvt_timestamp' = clock]_vars

\* channel 7, which has one value only, has been recorded a second time at a
\* later time, and the map still has its one entry
C22_Witness ==
  /\ ev.op = "handleObsUdp" /\ ev.outcome = "recorded"
  /\ nDgrams = 2 /\ pvt = Null
  /\ ev.replaced = {7}
  /\ Len(obs_by_channel) = 1
  /\ obs_by_channel[1].id = 7
  /\ obs_by_channel[1].s._received_at > StartClock

\* --------------------------------------------------------------------- C23
\* the channels the published batch names
ChannelsOf(samples) == {samples[i].channel_id : i \in 1..Len(samples)}

\* C23: a PVT datagram changes the slot and its timestamp only; an observables
\* datagram changes only obs_last_update_ms and the entries of the channels in
\* its batch, every other channel keeping its entry and its place; a PVT
\* request changes nothing, and in an observables request the summary changes
\* nothing: the map changes by the eviction of the snapshot read alone.
C23_SingleKeyReplacement ==
  [][/\ ev'.op = "handlePvtUdp" =>
          UNCHANGED <<obs_by_channel, obs_last_update_ms>>
     /\ ev'.op = "handleObsUdp" =>
          /\ UNCHANGED <<pvt, pvt_timestamp>>
          /\ \A c \in ChannelIds \ ChannelsOf(ev'.bc.sent) :
                /\ MapHas(obs_by_channel', c) = MapHas(obs_by_channel, c)
                /\ MapHas(obs_by_channel, c) =>
                      MapGet(obs_by_channel', c) = MapGet(obs_by_channel, c)
          /\ \A i \in 1..Len(obs_by_channel) :
                obs_by_channel'[i].id = obs_by_channel[i].id
     /\ ev'.op = "GET pvt" => UNCHANGED store
     /\ ev'.op = "GET observables" =>
          /\ UNCHANGED <<pvt, pvt_timestamp, obs_last_update_ms>>
          /\ obs_by_channel'
                = SelectSeq(obs_by_channel,
                            LAMBDA e : e.id \notin ev'.evicted)]_vars

\* a batch for channel 7 has been recorded while channel 3 was stored: channel
\* 3 keeps its earlier arrival time
C23_Witness ==
  /\ ev.op = "handleObsUdp" /\ ev.outcome = "recorded"
  /\ ChannelsOf(ev.bc.sent) = {7}
  /\ MapHas(obs_by_channel, 3)
  /\ MapGet(obs_by_channel, 3)._received_at < obs_last_update_ms
  /\ MapGet(obs_by_channel, 7)._received_at = obs_last_update_ms

\* --------------------------------------------------------------------- C24
\* C24 (as claimed): at every instant is_live is true exactly when getLatestPvt
\* returns a fix, in the summary a request has just answered with and in any
\* state the store can be in; with no fix recorded it is false.
C24_IsLiveIffPvtReturned ==
  /\ getLatestObservablesMeta(obs_by_channel, clock).is_live = (getLatestPvt # Null)
  /\ ev.op = "GET observables" => ev.meta.is_live = (getLatestPvt # Null)
  /\ pvt = Null => ~getLatestObservablesMeta(obs_by_channel, clock).is_live

\* --------------------------------------------------------------------- C25
\* C25 (as claimed): once a PVT request has answered null for a stored fix, a
\* request answers null in the next state too unless a PVT datagram was
\* recorded, whatever the clock did; and a channel a snapshot read has dropped
\* as stale is gone from the map and comes back only with an observables
\* datagram.
C25_StalenessIsPermanent ==
  [][/\ (ev.op = "GET pvt" /\ pvt # Null /\ ev.pvt = Null /\ ev'.op # "handlePvtUdp") =>
          (IF pvt' = Null \/ PvtExpired(clock', pvt_timestamp') THEN Null ELSE pvt') = Null
     /\ ev'.op = "GET observables" => ev'.evicted \cap Keys(obs_by_channel') = {}
     /\ \A c \in ChannelIds :
          (~MapHas(obs_by_channel, c) /\ MapHas(obs_by_channel', c)) =>
             ev'.op = "handleObsUdp"]_vars

\* --------------------------------------------------------------------- C26
\* C26: the entries stored from one observables datagram all carry the arrival
\* time that the call leaves in obs_last_update_ms, and a snapshot read that
\* the limit does not cut returns either both or neither of two entries of
\* equal arrival time.
C26_BatchSharesArrivalTime ==
  [][/\ (ev'.op = "handleObsUdp" /\ ev'.outcome = "recorded") =>
          \A c \in ChannelsOf(ev'.bc.sent) :
             /\ MapHas(obs_by_channel', c)
             /\ MapGet(obs_by_channel', c)._received_at = obs_last_update_ms'
     /\ (ev'.op = "GET observables" /\ ev'.limit \in {0, 64}) =>
          \A e1, e2 \in Range(obs_by_channel) :
             e1.s._received_at = e2.s._received_at =>
                ((e1.id \in ChannelsOf(ev'.observables))
                    = (e2.id \in ChannelsOf(ev'.observables)))]_vars

\* the two channels of the one datagram received have been dropped together by
\* a read without a limit
C26_Witness ==
  /\ ev.op = "GET observables" /\ ev.limit = 64
  /\ nDgrams = 1
  /\ ev.evicted = {3, 7}
  /\ ev.observables = <<>>

\* --------------------------------------------------------------------- C27
\* C27: what a decoded datagram leaves in the store is fixed by the store, the
\* datagram and the clock alone, whatever clients are connected and whichever
\* of their sends throw; and a connection, a closing or a closed client leaves
\* the store as it is.
C27_StoreIndependentOfSubscribers ==
  [][/\ (ev'.op = "handlePvtUdp" /\ ev'.buf.ok) =>
          /\ pvt' = PvtMsg(ev'.buf.pvt, clock)
          /\ pvt_timestamp' = clock
          /\ UNCHANGED <<obs_by_channel, obs_last_update_ms>>
     /\ (ev'.op = "handleObsUdp" /\ ev'.buf.ok /\ Tracked(ev'.buf.observable) # {}) =>
          /\ obs_by_channel'
                = SetAll(obs_by_channel, Samples(ev'.buf.observable, clock), clock)
          /\ obs_last_update_ms' = clock
          /\ UNCHANGED <<pvt, pvt_timestamp>>
     /\ (ev'.op \in {"handleObsUdp", "handlePvtUdp"} /\ ev'.outcome # "recorded") =>
          UNCHANGED store
     /\ (clients' # clients \/ readyState' # readyState) => UNCHANGED store]_vars

\* a fix has been recorded by the handler whose broadcast had a send that threw
C27_Witness ==
  /\ ev.op = "handlePvtUdp" /\ ev.outcome = "recorded"
  /\ ev.bc.threw # {}
  /\ pvt = ev.bc.sent /\ pvt_timestamp = clock

====
